---- MODULE Spec2Model ----
(***************************************************************************)
(* SmolVec<T> (src/src/lib.rs): a vector that keeps up to INLINE_CAPACITY  *)
(* elements inside the container and moves to a heap buffer when it grows. *)
(*                                                                         *)
(* The model keeps the raw memory the code manages by hand: the inline     *)
(* block of each container, the heap buffers handed out by the allocator   *)
(* (each with its state, its layout capacity and the number of times it    *)
(* was passed to dealloc), and per slot whether it holds a live value.     *)
(* Every operation is a function from worlds to worlds, composed the way   *)
(* the code composes its calls; an action applies one public operation.    *)
(***************************************************************************)
EXTENDS Integers, Sequences, FiniteSets, TLC

\* ---------------------------------------------------------------- constants

INLINE_CAPACITY == 16

\* The null pointer alloc::alloc returns on failure.
Null == 0

\* A slot holding no live value: never written, or moved out by ptr::read.
Uninit == -1

\* ------------------------------------------------------------------- bounds

\* Largest length a container is driven to.
MaxLen == 18

\* Largest argument given to with_capacity.
MaxCap == 17

\* Number of heap buffer addresses the allocator has to give.
MaxBufs == 3

\* Longest source sequence given to extend / from_iter.
MaxExt == 2

\* Mutating operations performed during the life of a second object (the
\* second container, the Vec).
MaxPairOps == 1

Names == {"a", "b"}

\* The container of the single-container runs.
Solo == {"a"}

\* Indices at which a pushed or written value may differ from the index.
AltPositions == {1, 3}

VARIABLES
    vecs,      \* Names -> SmolVec value (tag "None": no such container)
    heap,      \* buffer address -> [st, cap, slots]
    vec,       \* the std Vec produced by into_vec
    ret,       \* what the last operation returned
    ev,        \* memory events of the last operation, in program order
    crashed,   \* execution ended: a fault, or undefined behaviour was reached
    dropGlue,  \* whether the element type T has a destructor (String) or not (i32)
    pairOps,   \* mutating operations since two containers exist
    lifo       \* the pushes and pops made on container "a" since it was built

vars == <<vecs, heap, vec, ret, ev, crashed, dropGlue, pairOps, lifo>>

\* ------------------------------------------------------------ data (21-29)

NoVec == [tag |-> "None", len |-> 0, inl |-> <<>>, ptr |-> Null, capacity |-> 0]

\* Data::Inline(MaybeUninit::uninit())
InlineData == [i \in 1..INLINE_CAPACITY |-> Uninit]

\* An address that is not a live buffer: never handed out, or released.
NoBuf == [st |-> "free", cap |-> 0, slots |-> <<>>]

NoVecStd == [live |-> FALSE, elems |-> <<>>, src |-> <<>>]

Ev(k, b, n, ok) == [k |-> k, b |-> b, n |-> n, ok |-> ok]

Emit(w, e) == [w EXCEPT !.ev = Append(@, e)]

\* The address of a container's inline block; heap buffers are 1..MaxBufs.
InlineAddr(c) == IF c = "a" THEN -1 ELSE -2

OwnerOf(b) == IF b = -1 THEN "a" ELSE "b"

\* Whether address b is memory the program may access.
Valid(w, b) ==
    IF b < 0 THEN w.vecs[OwnerOf(b)].tag = "Inline"
    ELSE b # Null /\ w.heap[b].st = "live"

Load(w, b, i) ==
    IF b < 0 THEN w.vecs[OwnerOf(b)].inl[i + 1] ELSE w.heap[b].slots[i + 1]

Store(w, b, i, x) ==
    IF b < 0 THEN [w EXCEPT !.vecs[OwnerOf(b)].inl[i + 1] = x]
    ELSE [w EXCEPT !.heap[b].slots[i + 1] = x]

\* Addresses the allocator may hand out.
Unused(h) == {b \in DOMAIN h : h[b].st # "live"}

MinOf(S) == CHOOSE x \in S : \A y \in S : x <= y

\* ---------------------------------------------------- allocator (std::alloc)

\* alloc::alloc(layout): a fresh buffer of cap uninitialised slots in w.r, or
\* Null when the allocator fails.
alloc(w, cap) ==
    IF ~w.allocOk
    THEN Emit([w EXCEPT !.r = Null], Ev("alloc", Null, cap, FALSE))
    ELSE IF Unused(w.heap) = {}
    THEN [w EXCEPT !.stuck = TRUE, !.r = Null]
    ELSE LET b == MinOf(Unused(w.heap))
         IN  Emit([w EXCEPT !.heap[b] = [st |-> "live", cap |-> cap,
                                         slots |-> [i \in 1..cap |-> Uninit]],
                            !.r = b],
                  Ev("alloc", b, cap, TRUE))

\* alloc::dealloc(ptr, layout). Passing a pointer that is not a live buffer
\* (null, or already released) is undefined behaviour.
dealloc(w, ptr, cap) ==
    IF ptr # Null /\ w.heap[ptr].st = "live"
    THEN Emit([w EXCEPT !.heap[ptr] = NoBuf],
              Ev("dealloc", ptr, cap, w.heap[ptr].cap = cap))
    ELSE Emit([w EXCEPT !.crashed = TRUE], Ev("dealloc", ptr, cap, FALSE))

\* ptr::write(ptr.add(i), x). A write through a null or released pointer
\* faults.
ptr_write(w, b, i, x) ==
    IF ~Valid(w, b)
    THEN Emit([w EXCEPT !.crashed = TRUE], Ev("write", b, i, FALSE))
    ELSE Emit(Store(w, b, i, x), Ev("write", b, i, TRUE))

\* ptr::read(ptr.add(i)): the value is moved out into w.r; the slot no longer
\* holds a live value.
ptr_read(w, b, i) ==
    IF ~Valid(w, b)
    THEN Emit([w EXCEPT !.crashed = TRUE], Ev("read", b, i, FALSE))
    ELSE Emit([Store(w, b, i, Uninit) EXCEPT !.r = Load(w, b, i)],
              Ev("read", b, i, Load(w, b, i) # Uninit))

RECURSIVE CopySlots(_, _, _, _, _)
CopySlots(w, src, dst, i, n) ==
    IF i >= n THEN w
    ELSE CopySlots(Store(w, dst, i, Load(w, src, i)), src, dst, i + 1, n)

\* ptr::copy_nonoverlapping(src, dst, n): n slots, bit for bit.
copy_nonoverlapping(w, src, dst, n) ==
    IF n > 0 /\ (~Valid(w, dst) \/ ~Valid(w, src))
    THEN Emit([w EXCEPT !.crashed = TRUE], Ev("copy", dst, n, FALSE))
    ELSE Emit(CopySlots(w, src, dst, 0, n), Ev("copy", dst, n, TRUE))

\* ------------------------------------------------------------ SmolVec (31-162)

\* SmolVec::new
new(w, c) ==
    [w EXCEPT !.vecs[c] = [tag |-> "Inline", len |-> 0, inl |-> InlineData,
                           ptr |-> Null, capacity |-> 0]]

\* (mutant) the threshold test is strict: INLINE_CAPACITY itself goes to the heap
with_capacity_strict(w, c, cap) ==
    IF cap < INLINE_CAPACITY THEN new(w, c)
    ELSE LET w1 == alloc(w, cap)
         IN  [w1 EXCEPT !.vecs[c] = [tag |-> "Heap", len |-> 0, inl |-> <<>>,
                                     ptr |-> w1.r, capacity |-> cap]]

\* SmolVec::with_capacity
with_capacity(w, c, cap) ==
    IF cap <= INLINE_CAPACITY THEN new(w, c)
    ELSE LET w1 == alloc(w, cap)
         IN  [w1 EXCEPT !.vecs[c] = [tag |-> "Heap", len |-> 0, inl |-> <<>>,
                                     ptr |-> w1.r, capacity |-> cap]]

\* (mutant) the capacity field is reported, whatever the variant
capacity_field(v) == v.capacity

\* (mutant) the inline block counted one slot short
capacity_short(v) == IF v.tag = "Inline" THEN INLINE_CAPACITY - 1 ELSE v.capacity

\* SmolVec::capacity
capacity(v) == IF v.tag = "Inline" THEN INLINE_CAPACITY ELSE v.capacity

\* SmolVec::as_ptr / as_mut_ptr
as_ptr(w, c) == IF w.vecs[c].tag = "Inline" THEN InlineAddr(c) ELSE w.vecs[c].ptr

\* (mutant) the old buffer is released before its contents are copied
grow_free_first(w, c) ==
    LET v == w.vecs[c]
        new_capacity == IF capacity(v) = 0 THEN INLINE_CAPACITY ELSE capacity(v) * 2
        w1 == alloc(w, new_capacity)
        new_ptr == w1.r
        w2 == IF v.tag = "Heap" THEN dealloc(w1, v.ptr, v.capacity) ELSE w1
        w3 == IF w2.crashed THEN w2
              ELSE copy_nonoverlapping(w2, as_ptr(w2, c), new_ptr, v.len)
    IN  IF w1.stuck THEN w1
        ELSE IF w3.crashed THEN w3
        ELSE Emit([w3 EXCEPT !.vecs[c] = [tag |-> "Heap", len |-> v.len, inl |-> <<>>,
                                          ptr |-> new_ptr, capacity |-> new_capacity]],
                  Ev("install", new_ptr, new_capacity, TRUE))

\* (mutant) the buffer grows by one slot instead of doubling
grow_by_one(w, c) ==
    LET v == w.vecs[c]
        new_capacity == IF capacity(v) = 0 THEN INLINE_CAPACITY ELSE capacity(v) + 1
        w1 == alloc(w, new_capacity)
        new_ptr == w1.r
        w2 == copy_nonoverlapping(w1, as_ptr(w1, c), new_ptr, v.len)
        w3 == IF v.tag = "Heap" THEN dealloc(w2, v.ptr, v.capacity) ELSE w2
    IN  IF w1.stuck THEN w1
        ELSE IF w2.crashed THEN w2
        ELSE IF w3.crashed THEN w3
        ELSE Emit([w3 EXCEPT !.vecs[c] = [tag |-> "Heap", len |-> v.len, inl |-> <<>>,
                                          ptr |-> new_ptr, capacity |-> new_capacity]],
                  Ev("install", new_ptr, new_capacity, TRUE))

\* (mutant) the relocation copies one element too few
grow_drops_last(w, c) ==
    LET v == w.vecs[c]
        new_capacity == IF capacity(v) = 0 THEN INLINE_CAPACITY ELSE capacity(v) * 2
        w1 == alloc(w, new_capacity)
        new_ptr == w1.r
        w2 == copy_nonoverlapping(w1, as_ptr(w1, c), new_ptr, v.len - 1)
        w3 == IF v.tag = "Heap" THEN dealloc(w2, v.ptr, v.capacity) ELSE w2
    IN  IF w1.stuck THEN w1
        ELSE IF w2.crashed THEN w2
        ELSE IF w3.crashed THEN w3
        ELSE Emit([w3 EXCEPT !.vecs[c] = [tag |-> "Heap", len |-> v.len, inl |-> <<>>,
                                          ptr |-> new_ptr, capacity |-> new_capacity]],
                  Ev("install", new_ptr, new_capacity, TRUE))

\* SmolVec::grow
grow(w, c) ==
    LET v == w.vecs[c]
        new_capacity == IF capacity(v) = 0 THEN INLINE_CAPACITY ELSE capacity(v) * 2
        w1 == alloc(w, new_capacity)
        new_ptr == w1.r
        w2 == copy_nonoverlapping(w1, as_ptr(w1, c), new_ptr, v.len)
        w3 == IF v.tag = "Heap" THEN dealloc(w2, v.ptr, v.capacity) ELSE w2
    IN  IF w1.stuck THEN w1
        ELSE IF w2.crashed THEN w2
        ELSE IF w3.crashed THEN w3
        ELSE Emit([w3 EXCEPT !.vecs[c] = [tag |-> "Heap", len |-> v.len, inl |-> <<>>,
                                          ptr |-> new_ptr, capacity |-> new_capacity]],
                  Ev("install", new_ptr, new_capacity, TRUE))

\* (mutant) the length is counted but the value is never written
push_no_write(w, c, value) ==
    LET w1 == IF w.vecs[c].len = capacity(w.vecs[c]) THEN grow(w, c) ELSE w
    IN  IF w1.crashed \/ w1.stuck THEN w1
        ELSE [w1 EXCEPT !.vecs[c].len = @ + 1]

\* SmolVec::push
push(w, c, value) ==
    LET w1 == IF w.vecs[c].len = capacity(w.vecs[c]) THEN grow(w, c) ELSE w
        w2 == IF w1.crashed \/ w1.stuck THEN w1
              ELSE ptr_write(w1, as_ptr(w1, c), w1.vecs[c].len, value)
    IN  IF w2.crashed \/ w2.stuck THEN w2
        ELSE [w2 EXCEPT !.vecs[c].len = @ + 1]

\* (mutant) a heap container whose elements fit inline again moves back
pop_shrinks(w, c) ==
    IF w.vecs[c].len = 0 THEN [w EXCEPT !.r = <<>>]
    ELSE LET v == w.vecs[c]
             w1 == [w EXCEPT !.vecs[c].len = @ - 1]
             w2 == ptr_read(w1, as_ptr(w1, c), w1.vecs[c].len)
             x == w2.r
             n == v.len - 1
             w3 == [w2 EXCEPT !.vecs[c] = [tag |-> "Inline", len |-> n, inl |-> InlineData,
                                           ptr |-> Null, capacity |-> 0]]
             w4 == CopySlots(w3, v.ptr, InlineAddr(c), 0, n)
             w5 == dealloc(w4, v.ptr, v.capacity)
         IN  IF w2.crashed THEN w2
             ELSE IF v.tag = "Heap" /\ n <= INLINE_CAPACITY
             THEN [w5 EXCEPT !.r = <<x>>]
             ELSE [w2 EXCEPT !.r = <<x>>]

\* (mutant) the first element is taken instead of the last
pop_front(w, c) ==
    IF w.vecs[c].len = 0 THEN [w EXCEPT !.r = <<>>]
    ELSE LET w1 == [w EXCEPT !.vecs[c].len = @ - 1]
             w2 == ptr_read(w1, as_ptr(w1, c), 0)
         IN  IF w2.crashed THEN w2 ELSE [w2 EXCEPT !.r = <<w2.r>>]

\* SmolVec::pop: w.r is <<>> for None and <<x>> for Some(x).
pop(w, c) ==
    IF w.vecs[c].len = 0 THEN [w EXCEPT !.r = <<>>]
    ELSE LET w1 == [w EXCEPT !.vecs[c].len = @ - 1]
             w2 == ptr_read(w1, as_ptr(w1, c), w1.vecs[c].len)
         IN  IF w2.crashed THEN w2 ELSE [w2 EXCEPT !.r = <<w2.r>>]

\* (mutant) a heap container that was emptied gives its buffer back
clear_release(w, c) ==
    LET v == w.vecs[c]
        w1 == [w EXCEPT !.vecs[c].len = 0]
        w2 == IF v.tag = "Heap" THEN dealloc(w1, v.ptr, v.capacity) ELSE w1
    IN  IF w2.crashed THEN w2
        ELSE IF v.tag = "Heap" THEN new(w2, c)
        ELSE [w2 EXCEPT !.vecs[c].inl = InlineData, !.r = <<>>]

\* SmolVec::clear: pops until pop returns None; each popped value is dropped.
RECURSIVE clear(_, _)
clear(w, c) ==
    LET w1 == pop(w, c)
    IN  IF w1.crashed \/ w1.r = <<>> THEN w1
        ELSE IF ~w.glue THEN clear(w1, c)
        ELSE clear(Emit(w1, Ev("drop", as_ptr(w, c), w1.vecs[c].len, w1.r[1] # Uninit)), c)

\* Deref::deref: the slice of the first len slots.
deref(w, c) ==
    [i \in 1..w.vecs[c].len |-> Load(w, as_ptr(w, c), i - 1)]

\* Index / DerefMut: v[i] = x for i < len; the old value is dropped in place.
index_set(w, c, i, x) ==
    LET b == as_ptr(w, c)
        w1 == IF w.glue THEN Emit(w, Ev("drop", b, i, Load(w, b, i) # Uninit)) ELSE w
    IN  Emit(Store(w1, b, i, x), Ev("write", b, i, TRUE))

\* The destructor of slot i of buffer b runs. It is undefined behaviour when
\* the slot holds no live value (moved out) or the buffer was released.
drop_slot(w, b, i) ==
    IF ~Valid(w, b) THEN Emit([w EXCEPT !.crashed = TRUE], Ev("drop", b, i, FALSE))
    ELSE IF Load(w, b, i) = Uninit
    THEN Emit([w EXCEPT !.crashed = TRUE], Ev("drop", b, i, FALSE))
    ELSE Emit(Store(w, b, i, Uninit), Ev("drop", b, i, TRUE))

\* ptr::drop_in_place(&mut self[..]): the destructor of each of the first n
\* slots, in order; nothing for an element type without a destructor.
RECURSIVE drop_in_place(_, _, _, _)
drop_in_place(w, b, i, n) ==
    IF i >= n \/ ~w.glue \/ w.crashed THEN w
    ELSE drop_in_place(drop_slot(w, b, i), b, i + 1, n)

\* (mutant) every slot of the buffer is destructed, not only the first len
drop_whole_buffer(w, c) ==
    LET v == w.vecs[c]
        w1 == drop_in_place(w, as_ptr(w, c), 0, capacity(v))
        w2 == IF w1.crashed THEN w1
              ELSE IF v.tag = "Heap" THEN dealloc(w1, v.ptr, v.capacity)
              ELSE w1
    IN  IF w2.crashed THEN w2 ELSE [w2 EXCEPT !.vecs[c] = NoVec]

\* Drop::drop
drop(w, c) ==
    LET v == w.vecs[c]
        w1 == drop_in_place(w, as_ptr(w, c), 0, v.len)
        w2 == IF w1.crashed THEN w1
              ELSE IF v.tag = "Heap" THEN dealloc(w1, v.ptr, v.capacity)
              ELSE w1
    IN  IF w2.crashed THEN w2 ELSE [w2 EXCEPT !.vecs[c] = NoVec]

\* The loop of into_vec: vec.push(ptr::read(self.as_ptr().add(i))).
RECURSIVE read_all(_, _, _, _, _)
read_all(w, b, i, n, acc) ==
    IF i >= n THEN [w EXCEPT !.r = acc]
    ELSE LET w1 == ptr_read(w, b, i)
         IN  IF w1.crashed THEN [w1 EXCEPT !.r = acc]
             ELSE read_all(w1, b, i + 1, n, Append(acc, w1.r))

\* SmolVec::into_vec. `self` is taken by value and is not forgotten, so when
\* the function returns Drop::drop runs on it (the if-let only copies ptr and
\* capacity out of self.data). w.r is the Vec returned.
into_vec(w, c) ==
    LET v == w.vecs[c]
        w1 == read_all(w, as_ptr(w, c), 0, v.len, <<>>)
        w2 == IF w1.crashed THEN w1
              ELSE IF v.tag = "Heap" THEN dealloc(w1, v.ptr, v.capacity)
              ELSE w1
        w3 == IF w2.crashed THEN w2 ELSE drop(w2, c)
    IN  [w3 EXCEPT !.r = w1.r]

\* (mutant) the source is consumed from its far end
RECURSIVE extend_rev(_, _, _)
extend_rev(w, c, iter) ==
    IF iter = <<>> \/ w.crashed \/ w.stuck THEN w
    ELSE extend_rev(push(w, c, iter[Len(iter)]), c, SubSeq(iter, 1, Len(iter) - 1))

\* Extend::extend: push every item of the source, in order.
RECURSIVE extend(_, _, _)
extend(w, c, iter) ==
    IF iter = <<>> \/ w.crashed \/ w.stuck THEN w
    ELSE extend(push(w, c, Head(iter)), c, Tail(iter))

\* FromIterator::from_iter
from_iter(w, c, iter) == extend(new(w, c), c, iter)

\* (mutant) a bitwise copy of the container: both point at one heap buffer
clone_shallow(w, src, dst) == [w EXCEPT !.vecs[dst] = w.vecs[src]]

\* Clone::clone
clone(w, src, dst) ==
    extend(with_capacity(w, dst, w.vecs[src].len), dst, deref(w, src))

\* Iterator::eq on two slice iterators: walks both, stops at the first
\* difference or when either ends.
RECURSIVE iter_eq(_, _)
iter_eq(s, t) ==
    IF s = <<>> THEN t = <<>>
    ELSE IF t = <<>> THEN FALSE
    ELSE IF Head(s) # Head(t) THEN FALSE
    ELSE iter_eq(Tail(s), Tail(t))

\* (mutant) only the lengths are compared
eq_len_only(w, x, y) == w.vecs[x].len = w.vecs[y].len

\* PartialEq::eq
eq(w, x, y) ==
    w.vecs[x].len = w.vecs[y].len /\ iter_eq(deref(w, x), deref(w, y))

\* Iterator::cmp on two slice iterators: the first pair of unequal elements
\* decides; when one side ends first it is the lesser.
RECURSIVE iter_cmp(_, _)
iter_cmp(s, t) ==
    IF s = <<>> THEN (IF t = <<>> THEN "Equal" ELSE "Less")
    ELSE IF t = <<>> THEN "Greater"
    ELSE IF Head(s) < Head(t) THEN "Less"
    ELSE IF Head(s) > Head(t) THEN "Greater"
    ELSE iter_cmp(Tail(s), Tail(t))

\* (mutant) the shorter container is the lesser, whatever the elements
cmp_by_len(w, x, y) ==
    IF w.vecs[x].len < w.vecs[y].len THEN "Less"
    ELSE IF w.vecs[x].len > w.vecs[y].len THEN "Greater"
    ELSE iter_cmp(deref(w, x), deref(w, y))

\* Ord::cmp
cmp(w, x, y) == iter_cmp(deref(w, x), deref(w, y))

\* PartialOrd::partial_cmp: Some(ordering), written <<ordering>>.
partial_cmp(w, x, y) == <<iter_cmp(deref(w, x), deref(w, y))>>

\* (mutant) the capacity is fed to the hasher as well
hash_with_capacity(w, c) == <<w.vecs[c].len, capacity(w.vecs[c])>> \o deref(w, c)

\* Hash::hash: the values fed to the hasher, in order.
hash(w, c) == <<w.vecs[c].len>> \o deref(w, c)

\* ------------------------------------------------------- the client's inputs

Iota(start, n) == [i \in 1..n |-> start + i - 1]

\* The value pushed at index len: the index itself (as the tests push 0..n),
\* or one more at the positions where contents may differ.
PushValues(len) == {len} \cup (IF len \in AltPositions THEN {len + 1} ELSE {})

\* Arguments given to with_capacity: nothing, the inline threshold, and the
\* capacities above it.
CapArgs == {0, INLINE_CAPACITY} \cup (INLINE_CAPACITY + 1 .. MaxCap)

\* Lengths of the sources collected by from_iter: the short ones, and one
\* that does not fit inline.
IterLens == (0..MaxExt) \cup {INLINE_CAPACITY + 1}

\* Whether alloc succeeds, for an operation that may reach it.
AllocOutcomes(mayAlloc) == IF mayAlloc THEN BOOLEAN ELSE {TRUE}

\* What an operation returned: pop's Option, eq's bool, cmp's Ordering, the
\* values hash fed, into_vec's Vec; with_capacity leaves its argument and the
\* other operations returning () leave "unit". c is the container the
\* operation was called on (or built).
Ret(op, c, val) == [op |-> op, c |-> c, val |-> val]

NoLifo == [phase |-> "off", pushed |-> <<>>, popped |-> <<>>, snap |-> <<>>, extra |-> <<>>]

\* No bookkeeping is kept in the two-container runs.
LifoDisabled == [NoLifo EXCEPT !.phase = "disabled"]

Exists(c) == vecs[c].tag # "None"

\* A second object (container "b", the Vec) exists.
Many(vs, v) == vs["b"].tag # "None" \/ v.live

\* The world an operation starts in: the program state, whether alloc will
\* succeed during it, and whether T has a destructor.
World(ok) ==
    [vecs |-> vecs, heap |-> heap, ev |-> <<>>, crashed |-> FALSE, stuck |-> FALSE,
     r |-> 0, allocOk |-> ok, glue |-> dropGlue]

Fuel == Many(vecs, vec) => pairOps < MaxPairOps

Commit(w, retv, vecv, lifov) ==
    /\ ~w.stuck
    /\ dropGlue' = dropGlue
    /\ ev' = w.ev
    /\ crashed' = w.crashed
    /\ ret' = retv
    /\ IF w.crashed
       THEN \* the process is gone, and its memory with it
            /\ vecs' = [c \in Names |-> NoVec]
            /\ heap' = [b \in 1..MaxBufs |-> NoBuf]
            /\ vec' = NoVecStd
            /\ lifo' = IF lifo = LifoDisabled THEN lifo ELSE NoLifo
            /\ pairOps' = 0
       ELSE /\ vecs' = w.vecs
            /\ heap' = w.heap
            /\ vec' = vecv
            /\ lifo' = IF lifo = LifoDisabled THEN lifo ELSE lifov
            /\ pairOps' = IF ~(Many(w.vecs, vecv) /\ Many(vecs, vec)) THEN 0
                          ELSE IF pairOps < MaxPairOps THEN pairOps + 1
                          ELSE pairOps

\* test_push_pop's bookkeeping for container "a": the values pushed since
\* construction and, once popping starts, what each pop returned.
LifoStart(c) == IF c = "a" THEN [NoLifo EXCEPT !.phase = "push"] ELSE lifo

LifoOff(c) == IF c = "a" THEN NoLifo ELSE lifo

LifoPush(c, x) ==
    IF c # "a" THEN lifo
    ELSE IF lifo.phase = "push" THEN [lifo EXCEPT !.pushed = Append(@, x)]
    ELSE NoLifo

LifoPop(c, r) ==
    IF c # "a" THEN lifo
    ELSE IF lifo.phase \in {"push", "pop"} /\ Len(lifo.popped) < Len(lifo.pushed)
    THEN [lifo EXCEPT !.phase = "pop", !.popped = Append(@, r)]
    ELSE IF lifo.phase \in {"push", "pop"}
    THEN [lifo EXCEPT !.phase = "extra", !.snap = <<vecs[c], heap>>, !.extra = <<r>>]
    ELSE NoLifo

\* ------------------------------------------------------------------ actions

Start ==
    /\ vecs = [c \in Names |-> NoVec]
    /\ heap = [b \in 1..MaxBufs |-> NoBuf]
    /\ vec = NoVecStd
    /\ ret = Ret("unit", "a", <<>>)
    /\ ev = <<>>
    /\ crashed = FALSE
    /\ pairOps = 0

\* T is either a type without a destructor or one with a destructor.
Init == Start /\ dropGlue \in BOOLEAN /\ lifo = NoLifo

\* The elements compared and cloned have a destructor.
InitPair == Start /\ dropGlue = TRUE /\ lifo = LifoDisabled

New(c) ==
    /\ ~crashed /\ ~Exists(c) /\ Fuel
    /\ Commit(new(World(TRUE), c), Ret("unit", c, <<>>), vec, LifoStart(c))

WithCapacity(c, cap, ok) ==
    /\ ~crashed /\ ~Exists(c) /\ Fuel
    /\ Commit(with_capacity(World(ok), c, cap), Ret("with_capacity", c, cap),
              vec, LifoStart(c))

Push(c, x, ok) ==
    /\ ~crashed /\ Exists(c) /\ Fuel
    /\ vecs[c].len < MaxLen
    /\ Commit(push(World(ok), c, x), Ret("unit", c, <<>>), vec, LifoPush(c, x))

Pop(c) ==
    /\ ~crashed /\ Exists(c) /\ Fuel
    /\ LET w == pop(World(TRUE), c)
       IN  Commit(w, Ret("pop", c, w.r), vec, LifoPop(c, w.r))

Clear(c) ==
    /\ ~crashed /\ Exists(c) /\ Fuel
    /\ Commit(clear(World(TRUE), c), Ret("unit", c, <<>>), vec, LifoOff(c))

Extend(c, n, ok) ==
    /\ ~crashed /\ Exists(c) /\ Fuel
    /\ vecs[c].len + n <= MaxLen
    /\ LET iter == Iota(vecs[c].len, n)
       IN  Commit(extend(World(ok), c, iter), Ret("unit", c, <<>>), vec, LifoOff(c))

FromIter(c, n) ==
    /\ ~crashed /\ ~Exists(c) /\ Fuel
    /\ LET iter == Iota(0, n)
       IN  Commit(from_iter(World(TRUE), c, iter), Ret("unit", c, <<>>),
                  vec, LifoOff(c))

SetAt(c, i, x) ==
    /\ ~crashed /\ Exists(c) /\ Fuel
    /\ i < vecs[c].len
    /\ Commit(index_set(World(TRUE), c, i, x), Ret("unit", c, <<>>),
              vec, LifoOff(c))

Clone(src, dst, ok) ==
    /\ ~crashed /\ Exists(src) /\ ~Exists(dst) /\ Fuel
    /\ Commit(clone(World(ok), src, dst), Ret("clone", dst, <<>>), vec, LifoOff(dst))

Drop(c) ==
    /\ ~crashed /\ Exists(c)
    /\ Commit(drop(World(TRUE), c), Ret("unit", c, <<>>), vec, LifoOff(c))

Eq(x, y) ==
    /\ ~crashed /\ x # y /\ Exists(x) /\ Exists(y)
    /\ ret' = [op |-> "eq", c |-> x, d |-> y,
               val |-> <<eq(World(TRUE), x, y), eq(World(TRUE), y, x)>>]
    /\ ev' = <<>>
    /\ UNCHANGED <<vecs, heap, vec, crashed, dropGlue, pairOps, lifo>>

Cmp(x, y) ==
    /\ ~crashed /\ x # y /\ Exists(x) /\ Exists(y)
    /\ ret' = [op |-> "cmp", c |-> x, d |-> y,
               val |-> <<cmp(World(TRUE), x, y), cmp(World(TRUE), y, x),
                         partial_cmp(World(TRUE), x, y)>>]
    /\ ev' = <<>>
    /\ UNCHANGED <<vecs, heap, vec, crashed, dropGlue, pairOps, lifo>>

Hash(c) ==
    /\ ~crashed /\ Exists(c)
    /\ ret' = Ret("hash", c, hash(World(TRUE), c))
    /\ ev' = <<>>
    /\ UNCHANGED <<vecs, heap, vec, crashed, dropGlue, pairOps, lifo>>

\* The address of the std Vec's own buffer, which the Vec manages.
VecAddr == -3

\* into_iter by value: self.into_vec().into_iter().
IntoVec(c) ==
    /\ ~crashed /\ Exists(c) /\ ~vec.live
    /\ LET w0 == World(TRUE)
           w == into_vec(w0, c)
       IN  Commit(w, Ret("into_vec", c, deref(w0, c)),
                  [live |-> TRUE, elems |-> w.r, src |-> deref(w0, c)], LifoOff(c))

\* The round trip: a container rebuilt from the Vec's elements.
FromVec(c, ok) ==
    /\ ~crashed /\ ~Exists(c) /\ vec.live /\ Fuel
    /\ Commit(from_iter(World(ok), c, vec.elems), Ret("round_trip", c, vec.src),
              NoVecStd, LifoOff(c))

\* The Vec goes out of scope: it drops its elements.
DropVec ==
    /\ ~crashed /\ vec.live
    /\ vec' = NoVecStd
    /\ ev' = IF dropGlue THEN [i \in DOMAIN vec.elems |-> Ev("drop", VecAddr, i - 1, TRUE)]
             ELSE <<>>
    /\ ret' = Ret("unit", "a", <<>>)
    /\ pairOps' = 0
    /\ UNCHANGED <<vecs, heap, crashed, dropGlue, lifo>>

\* One container, its conversion into a Vec and back.
Next ==
    \/ \E c \in Solo : New(c)
    \/ \E c \in Solo, cap \in CapArgs : \E ok \in AllocOutcomes(cap > INLINE_CAPACITY) :
            WithCapacity(c, cap, ok)
    \/ \E c \in Solo : \E x \in PushValues(vecs[c].len) :
            \E ok \in AllocOutcomes(vecs[c].len = capacity(vecs[c])) : Push(c, x, ok)
    \/ \E c \in Solo : Pop(c)
    \/ \E c \in Solo : Clear(c)
    \/ \E c \in Solo, n \in 0..MaxExt :
            \E ok \in AllocOutcomes(vecs[c].len + n > capacity(vecs[c])) : Extend(c, n, ok)
    \/ \E c \in Solo, n \in IterLens : FromIter(c, n)
    \/ \E c \in Solo, i \in AltPositions : \E x \in {i, i + 1} : SetAt(c, i, x)
    \/ \E c \in Solo : Drop(c)
    \/ \E c \in Solo : IntoVec(c)
    \/ \E c \in Solo : \E ok \in AllocOutcomes(Len(vec.elems) > INLINE_CAPACITY) :
            FromVec(c, ok)
    \/ DropVec

Spec == Init /\ [][Next]_vars

\* Two containers side by side: clone and comparison.
NextPair ==
    \/ \E c \in Names : New(c)
    \/ \E c \in Names, cap \in CapArgs : \E ok \in AllocOutcomes(cap > INLINE_CAPACITY) :
            WithCapacity(c, cap, ok)
    \/ \E c \in Names : \E x \in PushValues(vecs[c].len) :
            \E ok \in AllocOutcomes(vecs[c].len = capacity(vecs[c])) : Push(c, x, ok)
    \/ \E c \in Names : Pop(c)
    \/ \E c \in Names : Clear(c)
    \/ \E c \in Names, n \in 0..MaxExt :
            \E ok \in AllocOutcomes(vecs[c].len + n > capacity(vecs[c])) : Extend(c, n, ok)
    \/ \E c \in Names, n \in IterLens : FromIter(c, n)
    \/ \E c \in Names, i \in AltPositions : \E x \in {i, i + 1} : SetAt(c, i, x)
    \/ \E s \in Names, d \in Names :
            \E ok \in AllocOutcomes(vecs[s].len > INLINE_CAPACITY) : Clone(s, d, ok)
    \/ \E c \in Names : Drop(c)
    \/ Eq("a", "b")
    \/ Cmp("a", "b")
    \/ \E c \in Names : Hash(c)

SpecPair == InitPair /\ [][NextPair]_vars

\* ------------------------------------------------------------- properties

\* The program state as a world, for evaluating the accessors on a state.
Here == [vecs |-> vecs, heap |-> heap]

Other(c) == IF c = "a" THEN "b" ELSE "a"

HasEvent(k) == \E i \in DOMAIN ev : ev[i].k = k

\* C1: N values pushed onto a new container and then popped N times come back
\* in reverse order, the container is then empty, and one more pop returns
\* None and leaves the container as it was.
C1_PushPopLifo ==
    /\ lifo.phase \in {"pop", "extra"} =>
          /\ Len(lifo.popped) <= Len(lifo.pushed)
          /\ \A k \in 1..Len(lifo.popped) :
                lifo.popped[k] = <<lifo.pushed[Len(lifo.pushed) - k + 1]>>
    /\ lifo.phase = "pop" =>
          vecs["a"].len = Len(lifo.pushed) - Len(lifo.popped)
    /\ lifo.phase = "extra" =>
          /\ Len(lifo.popped) = Len(lifo.pushed)
          /\ lifo.extra = << <<>> >>
          /\ vecs["a"].len = 0
          /\ <<vecs["a"], heap>> = lifo.snap

\* C1 witness: INLINE_CAPACITY + 1 values were pushed (the container grew),
\* all were popped and the extra pop was made.
C1_Witness ==
    /\ lifo.phase = "extra"
    /\ Len(lifo.pushed) = INLINE_CAPACITY + 1
    /\ vecs["a"].tag = "Heap"

\* C2: converting a container into a Vec never runs a destructor on the
\* source's slots: after into_vec no destructor call is among its events.
C2_NoDropAfterMove == ret.op = "into_vec" => ~HasEvent("drop")

\* C3: every heap buffer is passed to dealloc exactly once, while it is live
\* and with its own layout, and no live buffer is left without an owner.
C3_BuffersFreedOnce ==
    /\ \A i \in DOMAIN ev : (ev[i].k = "dealloc" /\ ev[i].b # Null) => ev[i].ok
    /\ \A i \in DOMAIN ev : (ev[i].k \in {"read", "write", "drop"} /\ ev[i].b > 0) => ev[i].ok
    /\ ~crashed => \A b \in DOMAIN heap :
          heap[b].st = "live" =>
              \E c \in Names : vecs[c].tag = "Heap" /\ vecs[c].ptr = b

\* C4: a container made by new() stays Inline, with capacity INLINE_CAPACITY
\* and without any allocation, through every operation that leaves its length
\* at most INLINE_CAPACITY.
C4_InlineUpTo16 ==
    [][\A c \in Names :
          /\ (vecs[c].tag = "None" /\ New(c)) =>
                /\ vecs'[c].tag = "Inline"
                /\ vecs'[c].len = 0
                /\ capacity(vecs'[c]) = INLINE_CAPACITY
                /\ ~HasEvent("alloc")'
          /\ (vecs[c].tag = "Inline" /\ ret'.c = c /\ vecs'[c].tag # "None" /\ ~crashed'
              /\ vecs'[c].len <= INLINE_CAPACITY) =>
                /\ vecs'[c].tag = "Inline"
                /\ capacity(vecs'[c]) = INLINE_CAPACITY
                /\ ~HasEvent("alloc")'
                /\ heap' = heap]_vars

\* C4 witness: INLINE_CAPACITY values were pushed onto a new container, which
\* is still Inline.
C4_Witness ==
    /\ lifo.phase = "push"
    /\ Len(lifo.pushed) = INLINE_CAPACITY
    /\ vecs["a"].tag = "Inline"
    /\ vecs["a"].len = INLINE_CAPACITY

\* C5: a push onto a full Inline container that returns leaves the container
\* in Heap mode with capacity above INLINE_CAPACITY, and the slice then reads
\* the old elements at their old indices followed by the new one.
C5_InlineToHeap ==
    [][\A c \in Names :
          (/\ vecs[c].tag = "Inline" /\ vecs[c].len = INLINE_CAPACITY
           /\ ~crashed'
           /\ \E x \in PushValues(vecs[c].len), ok \in BOOLEAN : Push(c, x, ok)) =>
                /\ vecs'[c].tag = "Heap"
                /\ capacity(vecs'[c]) >= INLINE_CAPACITY + 1
                /\ vecs'[c].len = INLINE_CAPACITY + 1
                /\ \A i \in 1..INLINE_CAPACITY : deref(Here, c)'[i] = deref(Here, c)[i]
                /\ \E x \in PushValues(vecs[c].len) :
                      deref(Here, c)' = Append(deref(Here, c), x)]_vars

\* C5 witness: the 17th push has moved the container to the heap, with a
\* value that differs from its index among the relocated ones.
C5_Witness ==
    /\ lifo.phase = "push"
    /\ Len(lifo.pushed) = INLINE_CAPACITY + 1
    /\ vecs["a"].tag = "Heap"
    /\ deref(Here, "a") = lifo.pushed
    /\ deref(Here, "a")[2] = 2

\* C6: a failed allocation is never installed as a container's buffer, and
\* nothing is copied or written through it.
C6_AllocFailureAborts ==
    /\ \A c \in Names : vecs[c].tag = "Heap" => vecs[c].ptr # Null
    /\ \A i \in DOMAIN ev : ev[i].k \in {"copy", "write"} => ev[i].b # Null

\* C7: len never exceeds capacity(), and every slot below len holds a live
\* value.
C7_LenWithinCapacity ==
    \A c \in Names :
        vecs[c].tag # "None" =>
            /\ vecs[c].len <= capacity(vecs[c])
            /\ vecs[c].len > 0 => Valid(Here, as_ptr(Here, c))
            /\ \A i \in 0..vecs[c].len - 1 : Load(Here, as_ptr(Here, c), i) # Uninit

\* C7 witness: a heap container filled to its capacity.
C7_Witness ==
    \E c \in Names :
        /\ vecs[c].tag = "Heap"
        /\ vecs[c].len = vecs[c].capacity
        /\ vecs[c].len > INLINE_CAPACITY

\* What can be observed of a container: its fields, its elements, its buffer.
Obs(c) ==
    <<vecs[c], deref(Here, c),
      IF vecs[c].tag = "Heap" /\ vecs[c].ptr # Null THEN heap[vecs[c].ptr] ELSE <<>> >>

\* C8: a clone has the elements of its source, in order, and compares equal to
\* it; the two never share a heap buffer; and an operation on one of two
\* containers leaves the other's fields, elements and buffer as they were.
C8_CloneIndependent ==
    [][~crashed' =>
          /\ \A y \in Names \ {ret'.c} : Obs(y)' = Obs(y)
          /\ \A d \in Names :
                (ret'.op = "clone" /\ ret'.c = d) =>
                    /\ vecs'[d].len = vecs[Other(d)].len
                    /\ deref(Here, d)' = deref(Here, Other(d))
                    /\ eq(Here, d, Other(d))'
          /\ (vecs'["a"].tag = "Heap" /\ vecs'["b"].tag = "Heap" /\ vecs'["a"].ptr # Null) =>
                vecs'["a"].ptr # vecs'["b"].ptr]_vars

\* C8 witness: a clone of a heap container of more than INLINE_CAPACITY
\* elements has since been written to and differs from its source.
C8_Witness ==
    /\ vecs["a"].tag = "Heap" /\ vecs["b"].tag = "Heap"
    /\ vecs["a"].len > INLINE_CAPACITY
    /\ vecs["b"].len = vecs["a"].len
    /\ pairOps = 1
    /\ ret.op = "unit" /\ ret.c = "b"
    /\ deref(Here, "a") # deref(Here, "b")

\* C9: converting a container into a Vec yields its elements, and a container
\* rebuilt from that Vec has the original's length and elements, in order.
C9_RoundTrip ==
    /\ (ret.op = "into_vec" /\ \A i \in DOMAIN ev : ev[i].b # Null) =>
          ~crashed /\ vec.elems = ret.val
    /\ (ret.op = "round_trip" /\ ~crashed) => deref(Here, ret.c) = ret.val

\* Two element sequences match: the same length, pairwise equal elements.
SameContents(s, t) == Len(s) = Len(t) /\ \A i \in 1..Len(s) : s[i] = t[i]

\* C10: eq is true exactly when the two containers have the same length and
\* pairwise equal elements, whatever their storage mode and capacity.
C10_EqIffSameContents ==
    ret.op = "eq" =>
        /\ ret.val[1] = SameContents(deref(Here, "a"), deref(Here, "b"))
        /\ ret.val[2] = ret.val[1]
        /\ vecs["a"].len # vecs["b"].len => ~ret.val[1]

\* C10 witness: a Heap container and an Inline container with the same
\* elements compared equal.
C10_Witness ==
    /\ ret.op = "eq" /\ ret.val[1]
    /\ vecs["a"].tag # vecs["b"].tag
    /\ vecs["a"].len > 1

\* The lexicographic order of two sequences, as the first differing position
\* and, without one, the lengths decide.
Lex(s, t) ==
    LET m == IF Len(s) < Len(t) THEN Len(s) ELSE Len(t)
        D == {i \in 1..m : s[i] # t[i]}
    IN  IF D # {}
        THEN (IF s[MinOf(D)] < t[MinOf(D)] THEN "Less" ELSE "Greater")
        ELSE IF Len(s) < Len(t) THEN "Less"
        ELSE IF Len(s) > Len(t) THEN "Greater"
        ELSE "Equal"

Flip(o) == IF o = "Less" THEN "Greater" ELSE IF o = "Greater" THEN "Less" ELSE o

\* C11: cmp and partial_cmp give the lexicographic order of the two element
\* sequences, whatever the storage modes and capacities: the first differing
\* position decides, a strict prefix is Less, and the result is Equal exactly
\* when eq holds.
C11_CmpLexicographic ==
    ret.op = "cmp" =>
        /\ ret.val[1] = Lex(deref(Here, "a"), deref(Here, "b"))
        /\ ret.val[2] = Flip(ret.val[1])
        /\ ret.val[3] = <<ret.val[1]>>
        /\ (ret.val[1] = "Equal") = eq(Here, "a", "b")

\* C11 witness: a longer Heap container compared Less than a shorter Inline
\* one, by an element at a position they both have.
C11_Witness ==
    /\ ret.op = "cmp" /\ ret.val[1] = "Less"
    /\ vecs["a"].tag = "Heap" /\ vecs["b"].tag = "Inline"
    /\ vecs["a"].len > vecs["b"].len
    /\ vecs["b"].len > 1

\* C12: hash feeds len and then the len elements in index order, and two
\* containers that compare equal feed the same sequence, whatever their
\* storage modes and capacities.
C12_HashConsistentWithEq ==
    /\ ret.op = "hash" =>
          /\ Len(ret.val) = vecs[ret.c].len + 1
          /\ ret.val[1] = vecs[ret.c].len
          /\ \A i \in 1..vecs[ret.c].len : ret.val[i + 1] = deref(Here, ret.c)[i]
    /\ (Exists("a") /\ Exists("b") /\ ~crashed /\ eq(Here, "a", "b")) =>
          hash(Here, "a") = hash(Here, "b")
    /\ (ret.op = "hash" /\ Exists(Other(ret.c)) /\ eq(Here, "a", "b")) =>
          ret.val = hash(Here, Other(ret.c))

\* C12 witness: one of two equal containers, one Heap and one Inline, with
\* different capacities, was hashed.
C12_Witness ==
    /\ ret.op = "hash"
    /\ Exists("a") /\ Exists("b")
    /\ eq(Here, "a", "b")
    /\ vecs["a"].tag # vecs["b"].tag
    /\ vecs["a"].len > 1

\* C13: with_capacity(cap) with cap <= INLINE_CAPACITY is new(): it leaves the
\* very state new() leaves (empty, Inline, capacity INLINE_CAPACITY, nothing
\* allocated), so all that follows is the same; with cap > INLINE_CAPACITY
\* it leaves an empty Heap container of capacity exactly cap.
C13_WithCapacityIsNew ==
    [][\A c \in Names :
          /\ \A cap \in 0..INLINE_CAPACITY, ok \in BOOLEAN :
                /\ with_capacity(World(ok), c, cap) = new(World(ok), c)
                /\ WithCapacity(c, cap, ok) =>
                      /\ vecs' = new(World(ok), c).vecs
                      /\ heap' = new(World(ok), c).heap
                      /\ vecs'[c].tag = "Inline" /\ vecs'[c].len = 0
                      /\ capacity(vecs'[c]) = INLINE_CAPACITY
                      /\ heap' = heap /\ ev' = <<>> /\ ~crashed'
          /\ \A cap \in INLINE_CAPACITY + 1 .. MaxCap, ok \in BOOLEAN :
                WithCapacity(c, cap, ok) =>
                      /\ vecs'[c].tag = "Heap" /\ vecs'[c].len = 0
                      /\ capacity(vecs'[c]) = cap
                      /\ ok => /\ heap'[vecs'[c].ptr].st = "live"
                               /\ heap'[vecs'[c].ptr].cap = cap
                               /\ heap[vecs'[c].ptr].st # "live"]_vars

\* C13 witness: a container built by with_capacity(0).
C13_Witness ==
    /\ ret.op = "with_capacity" /\ ret.val = 0
    /\ vecs[ret.c].tag = "Inline"
    /\ vecs[ret.c].len = 0
    /\ ~crashed

\* The events of kind k among those of the last operation.
Events(k) == {i \in DOMAIN ev : ev[i].k = k}

\* The storage of a container: its mode, its buffer and its capacity().
Storage(c) == <<vecs[c].tag, as_ptr(Here, c), capacity(vecs[c])>>

\* The layout of the heap: which buffers are live, and with what capacity.
HeapLayout == [b \in DOMAIN heap |-> <<heap[b].st, heap[b].cap>>]

\* C14: pop and clear leave the storage mode, the active buffer and
\* capacity() as they were, allocate and deallocate nothing, and leave the
\* elements below the new len unchanged; pop takes len down by one (not below
\* zero), clear makes exactly the former len pops and leaves len = 0.
C14_PopClearKeepStorage ==
    [][\A c \in Names :
          (Pop(c) \/ Clear(c)) =>
              /\ ~crashed'
              /\ Storage(c)' = Storage(c)
              /\ HeapLayout' = HeapLayout
              /\ Events("alloc")' = {} /\ Events("dealloc")' = {}
              /\ Events("install")' = {} /\ Events("copy")' = {}
              /\ \A i \in 1..vecs'[c].len : deref(Here, c)'[i] = deref(Here, c)[i]
              /\ Pop(c) => vecs'[c].len = (IF vecs[c].len = 0 THEN 0 ELSE vecs[c].len - 1)
              /\ Clear(c) => /\ vecs'[c].len = 0
                             /\ Cardinality(Events("read")') = vecs[c].len]_vars

\* C14 witness: a Heap container of more than INLINE_CAPACITY elements was
\* cleared and still holds its buffer.
C14_Witness ==
    /\ vecs["a"].tag = "Heap" /\ vecs["a"].len = 0
    /\ ret.op = "unit"
    /\ Cardinality(Events("read")) = INLINE_CAPACITY + 1
    /\ heap[vecs["a"].ptr].st = "live"
    /\ ~crashed

\* C15: extend appends the source's elements, in order, after the existing
\* ones (len grows by the source's length, the old elements stay), and
\* from_iter leaves the container that new() followed by extend leaves.
C15_ExtendAppends ==
    [][\A c \in Names :
          /\ \A n \in 0..MaxExt, ok \in BOOLEAN :
                (Extend(c, n, ok) /\ ~crashed') =>
                    /\ vecs'[c].len = vecs[c].len + n
                    /\ \A i \in 1..vecs[c].len : deref(Here, c)'[i] = deref(Here, c)[i]
                    /\ \A i \in 1..n :
                          deref(Here, c)'[vecs[c].len + i] = Iota(vecs[c].len, n)[i]
          /\ \A n \in IterLens :
                FromIter(c, n) =>
                    /\ ~crashed'
                    /\ deref(Here, c)' = Iota(0, n)
                    /\ LET w == extend(new(World(TRUE), c), c, Iota(0, n))
                       IN  vecs' = w.vecs /\ heap' = w.heap /\ ev' = w.ev]_vars

\* C15 witness: an extend by two elements took an Inline container of 15
\* elements to the heap.
C15_Witness ==
    /\ vecs["a"].tag = "Heap" /\ vecs["a"].len = INLINE_CAPACITY + 1
    /\ Cardinality(Events("write")) = 2
    /\ Events("alloc") # {}
    /\ ev[1].k = "write"
    /\ ~crashed

\* C16: across every operation on a container that exists before and after
\* it (push, pop, clear, extend, an indexed write), a Heap container stays a
\* Heap container and capacity() does not decrease.
C16_HeapStaysHeap ==
    [][\A c \in Names :
          (vecs[c].tag # "None" /\ vecs'[c].tag # "None") =>
              /\ vecs[c].tag = "Heap" => vecs'[c].tag = "Heap"
              /\ capacity(vecs'[c]) >= capacity(vecs[c])]_vars

\* C16 witness: a Heap container of capacity 2 * INLINE_CAPACITY was popped
\* down to fewer than INLINE_CAPACITY elements.
C16_Witness ==
    /\ vecs["a"].tag = "Heap" /\ vecs["a"].capacity = 2 * INLINE_CAPACITY
    /\ vecs["a"].len < INLINE_CAPACITY
    /\ ret.op = "pop" /\ ret.val # <<>>

\* C17: a push that returns grew the container exactly when len = capacity()
\* held before it, and then grew it once: the capacity is doubled, the
\* container is in Heap mode, the old elements are where they were and the
\* pushed value is at index len; a push with len < capacity() allocates
\* nothing and keeps capacity and storage.
C17_GrowthIffFull ==
    [][\A c \in Names :
          \A x \in PushValues(vecs[c].len), ok \in BOOLEAN :
              (Push(c, x, ok) /\ ~crashed') =>
                  /\ vecs'[c].len = vecs[c].len + 1
                  /\ deref(Here, c)' = Append(deref(Here, c), x)
                  /\ IF vecs[c].len = capacity(vecs[c])
                     THEN /\ Cardinality(Events("alloc")') = 1
                          /\ Cardinality(Events("copy")') = 1
                          /\ Cardinality(Events("install")') = 1
                          /\ capacity(vecs'[c]) = 2 * capacity(vecs[c])
                          /\ capacity(vecs'[c]) > vecs[c].len
                          /\ vecs'[c].tag = "Heap"
                     ELSE /\ Events("alloc")' = {} /\ Events("dealloc")' = {}
                          /\ Events("copy")' = {} /\ Events("install")' = {}
                          /\ Storage(c)' = Storage(c)
                          /\ HeapLayout' = HeapLayout]_vars

\* C17 witness: a full Heap container of capacity INLINE_CAPACITY + 1 was
\* pushed onto and doubled its capacity.
C17_Witness ==
    /\ vecs["a"].tag = "Heap"
    /\ vecs["a"].capacity = 2 * (INLINE_CAPACITY + 1)
    /\ vecs["a"].len = INLINE_CAPACITY + 2
    /\ Events("install") # {}
    /\ ~crashed

\* C18: a push onto a full Heap container whose allocation succeeds performs,
\* in this order and with nothing else: the allocation of the new buffer, the
\* copy of the len elements into it, the release of the old buffer with the
\* capacity it was allocated with, the installation of the new buffer, and the
\* write of the pushed value into the new buffer. No destructor runs, the new
\* buffer holds the old elements at their offsets, and the old buffer is no
\* longer live.
C18_GrowthOrder ==
    [][\A c \in Names :
          \A x \in PushValues(vecs[c].len) :
              (/\ vecs[c].tag = "Heap" /\ vecs[c].ptr # Null
               /\ vecs[c].len = vecs[c].capacity
               /\ Push(c, x, TRUE)) =>
                  LET prev == vecs[c].ptr
                      fresh == vecs'[c].ptr
                      n == vecs[c].len
                  IN  /\ ~crashed'
                      /\ fresh # prev /\ fresh # Null
                      /\ ev' = << Ev("alloc", fresh, 2 * vecs[c].capacity, TRUE),
                                  Ev("copy", fresh, n, TRUE),
                                  Ev("dealloc", prev, heap[prev].cap, TRUE),
                                  Ev("install", fresh, 2 * vecs[c].capacity, TRUE),
                                  Ev("write", fresh, n, TRUE) >>
                      /\ heap[prev].cap = vecs[c].capacity
                      /\ heap'[prev].st # "live"
                      /\ heap'[fresh].st = "live"
                      /\ \A i \in 1..n : heap'[fresh].slots[i] = heap[prev].slots[i]
                      /\ heap'[fresh].slots[n + 1] = x]_vars

\* C18 witness: the five steps of a growth from Heap mode, for an element
\* type with a destructor.
C18_Witness ==
    /\ dropGlue /\ ~crashed
    /\ Len(ev) = 5
    /\ ev[1].k = "alloc" /\ ev[2].k = "copy" /\ ev[3].k = "dealloc"
    /\ ev[4].k = "install" /\ ev[5].k = "write"
    /\ ev[3].ok
    /\ vecs["a"].ptr = ev[1].b

\* The slots of a container's active buffer, as a sequence.
Slots(c) ==
    IF vecs[c].tag = "Inline" THEN vecs[c].inl
    ELSE IF vecs[c].tag = "Heap" /\ vecs[c].ptr # Null THEN heap[vecs[c].ptr].slots
    ELSE <<>>

\* The events of kind k of the last operation, in order.
EventsOf(k) == SelectSeq(ev, LAMBDA e : e.k = k)

\* C19: the live values of a container are exactly those in its first len
\* slots: a push adds one, a pop hands one to the caller, clear and drop
\* destruct each of them once. No slot at or above len holds a value, is read
\* or is destructed, and drop releases the buffer of a Heap container.
C19_OwnershipEndsOnce ==
    [][\A c \in Names :
          /\ (vecs[c].tag # "None" /\ (vecs[c].tag = "Heap" => vecs[c].ptr # Null)) =>
                /\ \A i \in DOMAIN Slots(c) : (Slots(c)[i] # Uninit) = (i <= vecs[c].len)
                /\ Pop(c) =>
                      /\ ~crashed'
                      /\ ret'.val = (IF vecs[c].len = 0 THEN <<>>
                                     ELSE <<Slots(c)[vecs[c].len]>>)
                      /\ EventsOf("read")' =
                            (IF vecs[c].len = 0 THEN <<>>
                             ELSE <<Ev("read", as_ptr(Here, c), vecs[c].len - 1, TRUE)>>)
                      /\ EventsOf("drop")' = <<>>
                /\ Clear(c) =>
                      /\ ~crashed'
                      /\ EventsOf("read")' =
                            [k \in 1..vecs[c].len |->
                                Ev("read", as_ptr(Here, c), vecs[c].len - k, TRUE)]
                      /\ EventsOf("drop")' =
                            (IF dropGlue
                             THEN [k \in 1..vecs[c].len |->
                                      Ev("drop", as_ptr(Here, c), vecs[c].len - k, TRUE)]
                             ELSE <<>>)
                      /\ \A i \in DOMAIN Slots(c)' : Slots(c)'[i] = Uninit
                /\ Drop(c) =>
                      /\ ~crashed'
                      /\ EventsOf("read")' = <<>>
                      /\ EventsOf("drop")' =
                            (IF dropGlue
                             THEN [k \in 1..vecs[c].len |->
                                      Ev("drop", as_ptr(Here, c), k - 1, TRUE)]
                             ELSE <<>>)
                      /\ EventsOf("dealloc")' =
                            (IF vecs[c].tag = "Heap"
                             THEN <<Ev("dealloc", vecs[c].ptr, heap[vecs[c].ptr].cap, TRUE)>>
                             ELSE <<>>)
                      /\ vecs[c].tag = "Heap" => heap'[vecs[c].ptr].st # "live"
                      /\ vecs'[c].tag = "None"
          /\ \A x \in PushValues(vecs[c].len), ok \in BOOLEAN :
                Push(c, x, ok) => EventsOf("read")' = <<>> /\ EventsOf("drop")' = <<>>
          /\ \A n \in 0..MaxExt, ok \in BOOLEAN :
                Extend(c, n, ok) => EventsOf("read")' = <<>> /\ EventsOf("drop")' = <<>>]_vars

\* C19 witness: a Heap container of INLINE_CAPACITY + 1 elements with a
\* destructor was dropped: one destructor call per element, then the release
\* of its buffer.
C19_Witness ==
    /\ dropGlue /\ ~crashed
    /\ vecs["a"].tag = "None"
    /\ Len(ev) = INLINE_CAPACITY + 2
    /\ \A i \in 1..INLINE_CAPACITY + 1 : ev[i] = Ev("drop", ev[1].b, i - 1, TRUE)
    /\ ev[INLINE_CAPACITY + 2].k = "dealloc" /\ ev[INLINE_CAPACITY + 2].ok

\* C20: capacity() of every container is at least INLINE_CAPACITY, so grow
\* never takes its capacity() == 0 branch: no buffer of INLINE_CAPACITY slots
\* is ever allocated or installed, and an installed buffer has an even
\* capacity of at least 2 * INLINE_CAPACITY.
C20_CapacityAtLeastInline ==
    /\ \A c \in Names : vecs[c].tag # "None" => capacity(vecs[c]) >= INLINE_CAPACITY
    /\ \A i \in DOMAIN ev :
          /\ ev[i].k = "alloc" => ev[i].n > INLINE_CAPACITY
          /\ ev[i].k = "install" => ev[i].n >= 2 * INLINE_CAPACITY /\ ev[i].n % 2 = 0

\* C20 witness: the clone of a container of INLINE_CAPACITY + 1 elements, the
\* smallest Heap container there is, next to one built by with_capacity.
C20_Witness ==
    /\ ret.op = "clone"
    /\ vecs[ret.c].tag = "Heap"
    /\ capacity(vecs[ret.c]) = INLINE_CAPACITY + 1
    /\ vecs[ret.c].len = INLINE_CAPACITY + 1
    /\ ~crashed

====
